---- MODULE Spec2Model ----
(***************************************************************************)
(* PicoPlan: the record store (useTasks), its load-time migration, the     *)
(* list filter of App, the input form (TaskInput), the task editor         *)
(* (TaskItem) and the binary store (imageDb), as one state machine.        *)
(*                                                                         *)
(* A JavaScript object is a function from its own keys to their values.    *)
(* A key whose value is `undefined` is kept in memory with the value       *)
(* Undefined (strings) or UndefinedNum (numbers); JSON.stringify drops     *)
(* such keys, so a record read back from storage has fewer keys than the   *)
(* record that was written.                                                *)
(***************************************************************************)
EXTENDS Integers, Sequences, FiniteSets, TLC

\* ------------------------------------------------------------------ bounds
MaxUuid == 3          \* uuidv4() calls in one behaviour
MaxNow  == 8          \* Date.now() ranges over 2..MaxNow
MaxTasks == 2         \* addTask is offered while fewer tasks than this exist
MaxLookups == 2       \* getImageFromDB calls of one hook not yet settled

\* ------------------------------------------------------- program constants
STORAGE_KEY_TASKS        == "picoplan-tasks"
STORAGE_KEY_TAGS         == "picoplan-tags"
LEGACY_STORAGE_KEY_GAMES == "deadline-mate-games"
LEGACY_STORAGE_KEY_TASKS == "deadline-mate-tasks"
StorageKeys == {STORAGE_KEY_TASKS, STORAGE_KEY_TAGS,
                LEGACY_STORAGE_KEY_GAMES, LEGACY_STORAGE_KEY_TASKS}

Undefined    == "undefined"   \* the value undefined in a string-typed field
UndefinedNum == 0 - 1         \* the value undefined in a number-typed field
NumFields    == {"imageOffsetY", "imageOpacity", "createdAt"}
BoolFields   == {"completed"}

\* The calendar days of the model (Task.date is an ISO day string) and the
\* order new Date(date).getTime() puts them in.
Days == {"2024-01-01", "2024-01-02"}
getTime(date) ==
    IF date = "2024-01-01" THEN 1 ELSE IF date = "2024-01-02" THEN 2 ELSE 3

\* ---------------------------------------------------------- object helpers
Range(s) == {s[i] : i \in 1..Len(s)}

\* o.f : the value of a property, undefined when the object has no such key
Get(o, f) ==
    IF f \in DOMAIN o THEN o[f]
    ELSE IF f \in NumFields THEN UndefinedNum ELSE Undefined

IsUndefined(f, v) ==
    IF f \in BoolFields THEN FALSE
    ELSE IF f \in NumFields THEN v = UndefinedNum
    ELSE v = Undefined

\* { ...o, ...u }
Spread(o, u) ==
    [f \in (DOMAIN o) \cup (DOMAIN u) |-> IF f \in DOMAIN u THEN u[f] ELSE o[f]]

\* ({ f, ...rest }) => rest
Rest(o, f) == [g \in (DOMAIN o) \ {f} |-> o[g]]

MapSeq(s, Op(_)) == [i \in 1..Len(s) |-> Op(s[i])]

RECURSIVE FilterSeq(_, _)
FilterSeq(s, keep) ==
    IF s = <<>> THEN <<>>
    ELSE IF Head(s) \in keep THEN <<Head(s)>> \o FilterSeq(Tail(s), keep)
    ELSE FilterSeq(Tail(s), keep)

\* ------------------------------------------------------------ localStorage
\* getItem returns null for a missing key, otherwise the stored string.  A
\* stored string is either JSON text (with the value it denotes) or text
\* that JSON.parse rejects.  A JSON value is an array of objects or
\* something that is not an array.
NoItem        == [kind |-> "null"]
Garbage       == [kind |-> "text", json |-> FALSE]
JsonText(v)   == [kind |-> "text", json |-> TRUE, val |-> v]
JsonArray(s)  == [array |-> TRUE, items |-> s]
JsonNotArray  == [array |-> FALSE]

Truthy_nonEmptyList(item) ==
    item.kind = "text" /\ (item.json /\ item.val.array => item.val.items # <<>>)

Truthy_never(item) == FALSE

\* if (saved) ... : null is falsy, a non-empty string is truthy
Truthy(item) == item.kind = "text"

\* JSON.stringify of one object: keys holding undefined are dropped
StringifyObject(o) ==
    [f \in {g \in DOMAIN o : ~IsUndefined(g, o[g])} |-> o[f]]

\* JSON.stringify(array)
JSONstringify(s) == JsonText(JsonArray(MapSeq(s, StringifyObject)))

\* JSON.parse(text): ok = FALSE when it throws SyntaxError
JSONparse(item) ==
    IF item.json THEN [ok |-> TRUE, val |-> item.val] ELSE [ok |-> FALSE]

setItem(st, key, text) == [st EXCEPT ![key] = text]

\* ------------------------------------------------------------ list filter
compareTasks_byDateOnly(a, b) == getTime(a.date) - getTime(b.date)

\* The comparator of filteredTasks: incomplete first, then by date.
compareTasks(a, b) ==
    IF a.completed = b.completed
    THEN getTime(a.date) - getTime(b.date)
    ELSE IF a.completed THEN 1 ELSE 0 - 1

\* Array.prototype.sort is stable: an element goes after every element that
\* does not compare greater than it.
RECURSIVE InsertSorted(_, _)
InsertSorted(x, s) ==
    IF s = <<>> THEN <<x>>
    ELSE IF compareTasks(Head(s), x) > 0 THEN <<x>> \o s
    ELSE <<Head(s)>> \o InsertSorted(x, Tail(s))

RECURSIVE SortFrom(_, _)
SortFrom(s, acc) ==
    IF s = <<>> THEN acc ELSE SortFrom(Tail(s), InsertSorted(Head(s), acc))

sortTasks(s) == SortFrom(s, <<>>)

NoDate == "null"      \* selectedDate === null
NoTag  == "null"      \* selectedTagFilter === null

\* The array the useMemo callback leaves in the tasks state: result.sort()
\* sorts the state array itself when neither filter is active; filter()
\* returns a copy and leaves it alone.
tasksAfterFilter(ts, sd, tf) ==
    IF sd # NoDate THEN ts
    ELSE IF tf = NoTag THEN sortTasks(ts)
    ELSE ts

\* The value of filteredTasks
filteredTasks(ts, sd, tf) ==
    LET byDate == IF sd # NoDate
                  THEN FilterSeq(ts, {t \in Range(ts) : t.date = sd})
                  ELSE IF tf = NoTag THEN sortTasks(ts) ELSE ts
    IN  IF tf # NoTag
        THEN FilterSeq(byDate, {t \in Range(byDate) : Get(t, "tagId") = tf})
        ELSE byDate

\* ------------------------------------------------------------ load effect
\* The three default tags.  Their names are Japanese in the source; ASCII
\* names of the same meaning stand for them, the ids are the source's.
initialTags == <<
    [id |-> "tag-1", name |-> "work",     themeColor |-> "#607d8b"],
    [id |-> "tag-2", name |-> "shopping", themeColor |-> "#4caf50"],
    [id |-> "tag-3", name |-> "study",    themeColor |-> "#ff9800"] >>

migrateGame_keepsTitle(g) ==
    [id |-> Get(g, "id"), title |-> Get(g, "title"),
     themeColor |-> Get(g, "themeColor")]

\* games.map(g => ({ id: g.id, name: g.title, themeColor: g.themeColor }))
migrateGame(g) ==
    [id |-> Get(g, "id"), name |-> Get(g, "title"),
     themeColor |-> Get(g, "themeColor")]

migrateTask_stampsAll(t, now) ==
    Rest(Spread(t, [tagId |-> Get(t, "gameId"), createdAt |-> now]), "gameId")

\* t => ({ ...t, tagId: t.gameId, createdAt: t.createdAt || Date.now() })
\* followed by ({ gameId, ...rest }) => rest
migrateTask(t, now) ==
    LET createdAt == IF Get(t, "createdAt") \in {UndefinedNum, 0}
                     THEN now ELSE t.createdAt
        migrated  == Spread(t, [tagId |-> Get(t, "gameId"),
                                createdAt |-> createdAt])
    IN  Rest(migrated, "gameId")

\* catch (e) { console.error(...); setTags([]) }
tagMigrationFailed_rethrows(st) ==
    [threw |-> TRUE, tags |-> <<>>, storage |-> st, wrote |-> FALSE,
     branch |-> "failed"]

tagMigrationFailed(st) ==
    [threw |-> FALSE, tags |-> <<>>, storage |-> st, wrote |-> FALSE,
     branch |-> "failed"]

taskMigrationFailed_clearsLegacy(st) ==
    [threw |-> FALSE, tasks |-> <<>>,
     storage |-> setItem(st, LEGACY_STORAGE_KEY_TASKS, NoItem),
     wrote |-> FALSE, branch |-> "failed"]

\* catch (e) { console.error(...); setTasks([]) }
taskMigrationFailed(st) ==
    [threw |-> FALSE, tasks |-> <<>>, storage |-> st, wrote |-> FALSE,
     branch |-> "failed"]

\* neither key holds tasks: the effect does nothing, tasks stays []
noSavedTasks_writesEmpty(st) ==
    [threw |-> FALSE, tasks |-> <<>>,
     storage |-> setItem(st, STORAGE_KEY_TASKS, JSONstringify(<<>>)),
     wrote |-> TRUE, branch |-> "empty"]

noSavedTasks(st) ==
    [threw |-> FALSE, tasks |-> <<>>, storage |-> st, wrote |-> FALSE,
     branch |-> "empty"]

\* The tag half of the effect.  threw: startup ended in an exception.  Under
\* a current key JSON.parse runs outside any try: text it rejects throws
\* out of the effect, and a value that is not an array is set as the state
\* as it is, so that the render that follows throws on tags.find /
\* tasks.filter.
loadTags(st) ==
    LET savedTags  == st[STORAGE_KEY_TAGS]
        savedGames == st[LEGACY_STORAGE_KEY_GAMES]
    IN
    IF Truthy(savedTags) THEN
        LET p == JSONparse(savedTags) IN
        IF p.ok /\ p.val.array
        THEN [threw |-> FALSE, tags |-> p.val.items, storage |-> st,
              wrote |-> FALSE, branch |-> "current"]
        ELSE [threw |-> TRUE, tags |-> <<>>, storage |-> st,
              wrote |-> FALSE, branch |-> "current"]
    ELSE IF Truthy(savedGames) THEN
        LET p == JSONparse(savedGames) IN
        IF p.ok /\ p.val.array
        THEN LET migratedTags == MapSeq(p.val.items, migrateGame) IN
             [threw |-> FALSE, tags |-> migratedTags,
              storage |-> setItem(st, STORAGE_KEY_TAGS,
                                  JSONstringify(migratedTags)),
              wrote |-> TRUE, branch |-> "migrated"]
        ELSE tagMigrationFailed(st)
    ELSE [threw |-> FALSE, tags |-> initialTags,
          storage |-> setItem(st, STORAGE_KEY_TAGS,
                              JSONstringify(initialTags)),
          wrote |-> TRUE, branch |-> "seeded"]

\* The task half of the effect.
loadTasks(st, now) ==
    LET savedTasks  == st[STORAGE_KEY_TASKS]
        legacyTasks == st[LEGACY_STORAGE_KEY_TASKS]
    IN
    IF Truthy(savedTasks) THEN
        LET p == JSONparse(savedTasks) IN
        IF p.ok /\ p.val.array
        THEN [threw |-> FALSE, tasks |-> p.val.items, storage |-> st,
              wrote |-> FALSE, branch |-> "current"]
        ELSE [threw |-> TRUE, tasks |-> <<>>, storage |-> st,
              wrote |-> FALSE, branch |-> "current"]
    ELSE IF Truthy(legacyTasks) THEN
        LET p == JSONparse(legacyTasks) IN
        IF p.ok /\ p.val.array
        THEN LET cleanTasks ==
                     [i \in 1..Len(p.val.items) |->
                         migrateTask(p.val.items[i], now)] IN
             [threw |-> FALSE, tasks |-> cleanTasks,
              storage |-> setItem(st, STORAGE_KEY_TASKS,
                                  JSONstringify(cleanTasks)),
              wrote |-> TRUE, branch |-> "migrated"]
        ELSE taskMigrationFailed(st)
    ELSE noSavedTasks(st)

\* ------------------------------------------------------------------ state
VARIABLES
    phase,              \* "boot": mounted, effect not yet run; "running";
                        \* "crashed": startup ended in an exception
    storage,            \* localStorage: key -> item
    tasks, tags,        \* the useState arrays of useTasks
    binaryStore,        \* keys of the IndexedDB object store "images"
    pendingPuts,        \* saveImageToDB calls not yet settled
    pendingDeletes,     \* deleteImageFromDB calls issued and not yet run
    form,               \* TaskInput state
    view, selectedDate, selectedTagFilter,      \* App state
    items,              \* TaskItem state of every mounted item, by task id
    now,                \* Date.now(): every user event and every start of
                        \* the page happens one tick after the one before
    uuids,              \* number of uuidv4() results handed out
    lastOp,             \* the handler that ran last, with its arguments
    loadHist,           \* results of the loads run since the last mutation
    hook,               \* one instance of the useImage hook
    lastLookup,         \* the getImageFromDB call that settled last
    hero                \* the hero image of one TaskItem, as last rendered

vars == <<phase, storage, tasks, tags, binaryStore, pendingPuts,
          pendingDeletes, form, view, selectedDate, selectedTagFilter,
          items, now, uuids, lastOp, loadHist, hook, lastLookup, hero>>

hookVars == <<hook, lastLookup, hero>>

uuidv4(n) == <<"u1", "u2", "u3", "u4", "u5", "u6">>[n]

NoImage == "null"     \* localTaskImageId === null

\* useState initial values of TaskInput
initialForm ==
    [isExpanded |-> FALSE, selectedTagId |-> "", showNewTagInput |-> FALSE,
     localTaskImageId |-> NoImage, localNewTagImageId |-> NoImage]

\* useState initial values of TaskItem
initialItem(task) ==
    [isEditing        |-> FALSE,
     editTitle        |-> task.title,
     editDate         |-> task.date,
     editTime         |-> IF Get(task, "time") = Undefined
                          THEN "" ELSE task.time,
     editTagId        |-> IF Get(task, "tagId") = Undefined
                          THEN "" ELSE task.tagId,
     editImageOffsetY |-> IF Get(task, "imageOffsetY") = UndefinedNum
                          THEN 50 ELSE task.imageOffsetY,
     editImageOpacity |-> IF Get(task, "imageOpacity") = UndefinedNum
                          THEN 30 ELSE task.imageOpacity]

\* TaskList renders one TaskItem, keyed by task.id, for each element of
\* filteredTasks while the list view is shown.  A mounted item keeps its
\* state; a new one takes its initial state from the task it shows.
mountItems(its, shown, v) ==
    IF v # "list" THEN [id \in {} |-> initialForm]
    ELSE [id \in {t.id : t \in Range(shown)} |->
              IF id \in DOMAIN its THEN its[id]
              ELSE initialItem(CHOOSE t \in Range(shown) : t.id = id)]

\* The render that follows a state change: useMemo re-evaluates
\* filteredTasks and the list is reconciled.
Render(newTasks, sd, tf, v, its) ==
    /\ tasks' = tasksAfterFilter(newTasks, sd, tf)
    /\ selectedDate' = sd
    /\ selectedTagFilter' = tf
    /\ view' = v
    /\ items' = mountItems(its, filteredTasks(newTasks, sd, tf), v)

\* ----------------------------------------------------------- initial state
\* A first start of the application: nothing under the current keys, an
\* empty binary store, and under the legacy keys whatever the previous
\* application left: nothing, its games, its games and the tasks that name
\* them, or such a pair with one of the two values damaged.
legacyGames == <<
    [id |-> "g1", title |-> "Work", themeColor |-> "#111"],
    [id |-> "g2", title |-> "Play", themeColor |-> "#222"] >>

\* A stored createdAt is an earlier Date.now(), hence positive; the second
\* task has none and takes the time of the migration.
legacyTaskList == <<
    [id |-> "t2", title |-> "Y", date |-> "2024-01-01", completed |-> TRUE,
     type |-> "scheduled", createdAt |-> 1],
    [id |-> "t1", title |-> "X", date |-> "2024-01-02", completed |-> FALSE,
     type |-> "deadline", gameId |-> "g1"] >>

Malformed == {Garbage, JsonText(JsonNotArray)}

LegacyContents ==
    LET games == JsonText(JsonArray(legacyGames))
        list  == JsonText(JsonArray(legacyTaskList))
    IN  {<<NoItem, NoItem>>, <<games, NoItem>>, <<games, list>>}
        \cup {<<m, list>> : m \in Malformed}
        \cup {<<games, m>> : m \in Malformed}

NoOp == [op |-> "none"]

\* useState<string | null>(null) of useImage, before the component that
\* calls it is mounted
Null == "null"

initialHook ==
    [mounted |-> FALSE, localImageId |-> Undefined, fallbackUrl |-> Undefined,
     imageUrl |-> Null, outcome |-> "none", lookups |-> {}]

NoLookup == [id |-> ""]

\* no TaskItem has drawn a hero image yet
NotRendered == [shown |-> FALSE]

\* One tick of the clock, for the event that is being handled
ClockTick == now < MaxNow /\ now' = now + 1

Init ==
    /\ phase = "boot"
    /\ \E c \in LegacyContents :
          storage = [k \in StorageKeys |->
                        IF k = LEGACY_STORAGE_KEY_GAMES THEN c[1]
                        ELSE IF k = LEGACY_STORAGE_KEY_TASKS THEN c[2]
                        ELSE NoItem]
    /\ tasks = <<>>
    /\ tags = <<>>
    /\ binaryStore = {}
    /\ pendingPuts = {}
    /\ pendingDeletes = {}
    /\ form = initialForm
    /\ view = "list"
    /\ selectedDate = NoDate
    /\ selectedTagFilter = NoTag
    /\ items = [id \in {} |-> initialForm]
    /\ now = 2
    /\ uuids = 0
    /\ lastOp = NoOp
    /\ loadHist = <<>>
    /\ hook = initialHook
    /\ lastLookup = NoLookup
    /\ hero = NotRendered

\* ------------------------------------------------------------ load, reload
\* The mount effect of useTasks, and the render it causes.
Load ==
    /\ ClockTick
    /\ phase = "boot"
    /\ LET rt == loadTags(storage) IN
       IF rt.threw
       THEN /\ phase' = "crashed"
            /\ lastOp' = [op |-> "load", threw |-> TRUE,
                          tagsBranch |-> rt.branch, tasksBranch |-> "none"]
            /\ UNCHANGED <<storage, tasks, tags, selectedDate,
                           selectedTagFilter, view, items, loadHist>>
       ELSE LET rk == loadTasks(rt.storage, now) IN
            IF rk.threw
            THEN /\ phase' = "crashed"
                 /\ storage' = rk.storage
                 /\ lastOp' = [op |-> "load", threw |-> TRUE,
                               tagsBranch |-> rt.branch,
                               tasksBranch |-> rk.branch]
                 /\ UNCHANGED <<tasks, tags, selectedDate,
                                selectedTagFilter, view, items, loadHist>>
            ELSE /\ phase' = "running"
                 /\ storage' = rk.storage
                 /\ tags' = rt.tags
                 /\ Render(rk.tasks, selectedDate, selectedTagFilter,
                           view, items)
                 /\ lastOp' = [op |-> "load", threw |-> FALSE,
                               tagsBranch |-> rt.branch,
                               tasksBranch |-> rk.branch]
                 /\ loadHist' =
                       LET entry == [tags |-> tags', tasks |-> tasks',
                                     writes |->
                                       (IF rt.wrote THEN {STORAGE_KEY_TAGS}
                                        ELSE {}) \cup
                                       (IF rk.wrote THEN {STORAGE_KEY_TASKS}
                                        ELSE {}),
                                     at |-> now]
                       IN  IF loadHist = <<>> THEN <<entry>>
                           ELSE <<loadHist[Len(loadHist)], entry>>
    /\ UNCHANGED <<binaryStore, pendingPuts, pendingDeletes, form,
                   uuids>>
    /\ UNCHANGED hookVars

\* The page is closed and opened again: component state is back to its
\* initial values, storage stays.  An IndexedDB request that was still in
\* flight has either been carried out or not.
Restart ==
    /\ ClockTick
    /\ phase # "boot"
    /\ phase' = "boot"
    /\ tasks' = <<>>
    /\ tags' = <<>>
    /\ form' = initialForm
    /\ view' = "list"
    /\ selectedDate' = NoDate
    /\ selectedTagFilter' = NoTag
    /\ items' = [id \in {} |-> initialForm]
    /\ \E landed \in SUBSET {p.id : p \in pendingPuts},
          removed \in SUBSET pendingDeletes :
          binaryStore' = (binaryStore \cup landed) \ removed
    /\ pendingPuts' = {}
    /\ pendingDeletes' = {}
    /\ lastOp' = [op |-> "restart"]
    /\ UNCHANGED <<storage, uuids, loadHist>>
    /\ UNCHANGED hookVars

\* ------------------------------------------------------------ record store
\* saveTasks / saveTags: the localStorage half (setTasks / setTags is the
\* assignment to tasks' / tags' in the calling action)
saveTasks_memoryOnly(st, newTasks) == st

saveTasks(st, newTasks) == setItem(st, STORAGE_KEY_TASKS, JSONstringify(newTasks))
saveTags(st, newTags)   == setItem(st, STORAGE_KEY_TAGS, JSONstringify(newTags))

\* [...tasks, newTask]
addTask(ts, id, createdAt, title, date, type, tagId, time, imageUrl, imageOffsetY, localImageId, imageOpacity) ==
    Append(ts, [id |-> id, title |-> title, date |-> date, type |-> type,
                completed |-> FALSE, tagId |-> tagId, time |-> time,
                imageUrl |-> imageUrl, localImageId |-> localImageId,
                imageOffsetY |-> imageOffsetY, imageOpacity |-> imageOpacity,
                createdAt |-> createdAt])

toggleTask_appends(ts, id) ==
    ts \o [i \in 1..Cardinality({j \in 1..Len(ts) : ts[j].id = id}) |->
              LET t == CHOOSE x \in Range(ts) : x.id = id
              IN  Spread(t, [completed |-> ~t.completed])]

\* tasks.map(task => task.id === id ? { ...task, completed: !task.completed } : task)
toggleTask(ts, id) ==
    [i \in 1..Len(ts) |->
        IF ts[i].id = id
        THEN Spread(ts[i], [completed |-> ~ts[i].completed]) ELSE ts[i]]

updateTask(ts, id, updates) ==
    [i \in 1..Len(ts) |->
        IF ts[i].id = id THEN Spread(ts[i], updates) ELSE ts[i]]

removeTask_keepsAll(ts, id) == ts

\* tasks.filter(task => task.id !== id)
removeTask(ts, id) == FilterSeq(ts, {t \in Range(ts) : t.id # id})

\* [...tags, newTag]
addTag(gs, id, name, themeColor, imageUrl, localImageId) ==
    Append(gs, [id |-> id, name |-> name, themeColor |-> themeColor,
                imageUrl |-> imageUrl, localImageId |-> localImageId])

\* tags.filter(tag => tag.id !== id)
removeTag(gs, id) == FilterSeq(gs, {g \in Range(gs) : g.id # id})

clearTag_firstOnly(ts, id) ==
    LET hit == {i \in 1..Len(ts) : Get(ts[i], "tagId") = id} IN
    [i \in 1..Len(ts) |->
        IF i \in hit /\ \A j \in hit : i <= j
        THEN Spread(ts[i], [tagId |-> Undefined]) ELSE ts[i]]

\* tasks.map(task => task.tagId === id ? { ...task, tagId: undefined } : task)
clearTag(ts, id) ==
    [i \in 1..Len(ts) |->
        IF Get(ts[i], "tagId") = id
        THEN Spread(ts[i], [tagId |-> Undefined]) ELSE ts[i]]

localImageOf_none(s, id) == {}

\* tasks.find(t => t.id === id)?.localImageId, when truthy
localImageOf(s, id) ==
    LET hit == {i \in 1..Len(s) : s[i].id = id}
        first == CHOOSE i \in hit : \A j \in hit : i <= j
    IN  IF hit = {} \/ Get(s[first], "localImageId") \in {Undefined, ""}
        THEN {} ELSE {s[first].localImageId}

\* x || undefined
OrUndefined(x) == IF x = "" \/ x = NoImage THEN Undefined ELSE x

\* --------------------------------------------------------- user: the form
FormTitles    == {"X"}
FormTypes     == {"deadline"}
FormTimes     == {""}
FormImageUrls == {""}
FormTagNames  == {"N"}

FormShown == phase = "running" /\ view = "list"

\* TaskInput.handleSubmit
HandleSubmit ==
    /\ ClockTick
    /\ FormShown /\ form.isExpanded
    /\ Len(tasks) < MaxTasks
    /\ uuids < MaxUuid
    /\ \E title \in FormTitles, date \in Days, type \in FormTypes,
          time \in FormTimes, taskImage \in FormImageUrls :
          LET hasImage == taskImage # "" \/ form.localTaskImageId # NoImage
              newTasks == addTask(tasks, uuidv4(uuids + 1), now, title, date,
                                  type, OrUndefined(form.selectedTagId),
                                  OrUndefined(time), OrUndefined(taskImage),
                                  IF hasImage THEN 50 ELSE UndefinedNum,
                                  OrUndefined(form.localTaskImageId),
                                  IF hasImage THEN 30 ELSE UndefinedNum)
          IN  /\ storage' = saveTasks(storage, newTasks)
              /\ Render(newTasks, selectedDate, selectedTagFilter, view, items)
              /\ lastOp' = [op |-> "addTask", id |-> uuidv4(uuids + 1),
                            args |-> [title |-> title, date |-> date,
                                      type |-> type,
                                      tagId |-> form.selectedTagId,
                                      time |-> time, imageUrl |-> taskImage,
                                      localImageId |-> form.localTaskImageId]]
    /\ uuids' = uuids + 1
    /\ form' = [form EXCEPT !.selectedTagId = "",
                            !.localTaskImageId = NoImage,
                            !.isExpanded = FALSE]
    /\ loadHist' = <<>>
    /\ UNCHANGED <<phase, tags, binaryStore, pendingPuts, pendingDeletes>>
    /\ UNCHANGED hookVars

\* TaskInput.handleAddTag
HandleAddTag ==
    /\ ClockTick
    /\ FormShown /\ form.isExpanded /\ form.showNewTagInput
    /\ uuids < MaxUuid
    /\ \E name \in FormTagNames, newTagImage \in FormImageUrls :
          LET newTags == addTag(tags, uuidv4(uuids + 1), name, "#e1bee7",
                                OrUndefined(newTagImage),
                                OrUndefined(form.localNewTagImageId))
          IN  /\ tags' = newTags
              /\ storage' = saveTags(storage, newTags)
              /\ lastOp' = [op |-> "addTag", id |-> uuidv4(uuids + 1)]
    /\ uuids' = uuids + 1
    /\ form' = [form EXCEPT !.localNewTagImageId = NoImage,
                            !.showNewTagInput = FALSE]
    /\ loadHist' = <<>>
    /\ UNCHANGED <<phase, tasks, binaryStore, pendingPuts, pendingDeletes,
                   view, selectedDate, selectedTagFilter, items>>
    /\ UNCHANGED hookVars

\* TagSelectionItem onDelete, which asks, and deleteTag, which asks again
DeleteTag ==
    /\ ClockTick
    /\ FormShown /\ form.isExpanded
    /\ \E g \in Range(tags), outerOk \in BOOLEAN, innerOk \in BOOLEAN :
          LET id == g.id
              n  == Cardinality({i \in 1..Len(tasks) :
                                    Get(tasks[i], "tagId") = id})
          IN
          /\ lastOp' = [op |-> "deleteTag", id |-> id, n |-> n,
                        confirmed |-> outerOk /\ innerOk,
                        asked |-> IF outerOk THEN 2 ELSE 1]
          /\ IF outerOk /\ innerOk
             THEN LET newTags  == removeTag(tags, id)
                      newTasks == clearTag(tasks, id)
                  IN  /\ pendingDeletes' =
                            pendingDeletes \cup localImageOf(tags, id)
                      /\ tags' = newTags
                      /\ storage' = saveTasks(saveTags(storage, newTags),
                                              newTasks)
                      /\ Render(newTasks, selectedDate, selectedTagFilter,
                                view, items)
                      /\ loadHist' = <<>>
             ELSE UNCHANGED <<pendingDeletes, tags, storage, tasks,
                              selectedDate, selectedTagFilter, view, items,
                              loadHist>>
          /\ form' = IF outerOk /\ form.selectedTagId = id
                     THEN [form EXCEPT !.selectedTagId = ""] ELSE form
    /\ UNCHANGED <<phase, binaryStore, pendingPuts, uuids>>
    /\ UNCHANGED hookVars

\* the container's onClick, the cancel button, the tag buttons, the
\* new-tag toggle
ExpandForm ==
    /\ ClockTick
    /\ FormShown /\ ~form.isExpanded
    /\ form' = [form EXCEPT !.isExpanded = TRUE]
    /\ lastOp' = [op |-> "expandForm"]
    /\ UNCHANGED <<phase, storage, tasks, tags, binaryStore, pendingPuts,
                   pendingDeletes, view, selectedDate, selectedTagFilter,
                   items, uuids, loadHist>>
    /\ UNCHANGED hookVars

CancelForm ==
    /\ ClockTick
    /\ FormShown /\ form.isExpanded
    /\ form' = [form EXCEPT !.isExpanded = FALSE]
    /\ lastOp' = [op |-> "cancelForm"]
    /\ UNCHANGED <<phase, storage, tasks, tags, binaryStore, pendingPuts,
                   pendingDeletes, view, selectedDate, selectedTagFilter,
                   items, uuids, loadHist>>
    /\ UNCHANGED hookVars

SelectFormTag ==
    /\ ClockTick
    /\ FormShown /\ form.isExpanded
    /\ \E g \in Range(tags) :
          form' = [form EXCEPT !.selectedTagId =
                      IF form.selectedTagId = g.id THEN "" ELSE g.id]
    /\ lastOp' = [op |-> "selectFormTag"]
    /\ UNCHANGED <<phase, storage, tasks, tags, binaryStore, pendingPuts,
                   pendingDeletes, view, selectedDate, selectedTagFilter,
                   items, uuids, loadHist>>
    /\ UNCHANGED hookVars

ToggleNewTagInput ==
    /\ ClockTick
    /\ FormShown /\ form.isExpanded
    /\ form' = [form EXCEPT !.showNewTagInput = ~form.showNewTagInput]
    /\ lastOp' = [op |-> "toggleNewTagInput"]
    /\ UNCHANGED <<phase, storage, tasks, tags, binaryStore, pendingPuts,
                   pendingDeletes, view, selectedDate, selectedTagFilter,
                   items, uuids, loadHist>>
    /\ UNCHANGED hookVars

\* ------------------------------------------------------ user: a task item
ItemShown(id) == phase = "running" /\ id \in DOMAIN items

\* the check button of TaskItem: onToggle(task.id)
ToggleTask ==
    /\ ClockTick
    /\ \E id \in DOMAIN items :
        /\ ItemShown(id)
        /\ LET newTasks == toggleTask(tasks, id) IN
              /\ storage' = saveTasks(storage, newTasks)
              /\ Render(newTasks, selectedDate, selectedTagFilter, view, items)
        /\ lastOp' = [op |-> "toggleTask", id |-> id]
        /\ loadHist' = <<>>
        /\ UNCHANGED <<phase, tags, binaryStore, pendingPuts, pendingDeletes,
                       form, uuids>>
    /\ UNCHANGED hookVars

\* the trash button of TaskItem: onDelete(task.id), which asks
DeleteTask ==
    /\ ClockTick
    /\ \E id \in DOMAIN items, ok \in BOOLEAN :
        /\ ItemShown(id) /\ ~items[id].isEditing
        /\ lastOp' = [op |-> "deleteTask", id |-> id, confirmed |-> ok]
        /\ IF ok
           THEN LET newTasks == removeTask(tasks, id) IN
                /\ pendingDeletes' = pendingDeletes \cup localImageOf(tasks, id)
                /\ storage' = saveTasks(storage, newTasks)
                /\ Render(newTasks, selectedDate, selectedTagFilter, view,
                          items)
                /\ loadHist' = <<>>
           ELSE UNCHANGED <<pendingDeletes, storage, tasks, selectedDate,
                            selectedTagFilter, view, items, loadHist>>
        /\ UNCHANGED <<phase, tags, binaryStore, pendingPuts, form, uuids>>
    /\ UNCHANGED hookVars

\* the pencil button
StartEdit ==
    /\ ClockTick
    /\ \E id \in DOMAIN items :
        /\ ItemShown(id) /\ ~items[id].isEditing
        /\ items' = [items EXCEPT ![id].isEditing = TRUE]
        /\ lastOp' = [op |-> "startEdit", id |-> id]
        /\ UNCHANGED <<phase, storage, tasks, tags, binaryStore, pendingPuts,
                       pendingDeletes, form, view, selectedDate,
                       selectedTagFilter, uuids, loadHist>>
    /\ UNCHANGED hookVars

\* the tag <select> of the editor: "" or one of the tags
ChangeEditTag ==
    /\ ClockTick
    /\ \E id \in DOMAIN items, v \in {""} \cup {g.id : g \in Range(tags)} :
        /\ ItemShown(id) /\ items[id].isEditing
        /\ items[id].editTagId # v
        /\ items' = [items EXCEPT ![id].editTagId = v]
        /\ lastOp' = [op |-> "changeEditTag", id |-> id]
        /\ UNCHANGED <<phase, storage, tasks, tags, binaryStore, pendingPuts,
                       pendingDeletes, form, view, selectedDate,
                       selectedTagFilter, uuids, loadHist>>
    /\ UNCHANGED hookVars

\* the date <input> of the editor: a day of the model or the day after them
EditDays == Days \cup {"2024-01-03"}

ChangeEditDate ==
    /\ ClockTick
    /\ \E id \in DOMAIN items, v \in EditDays :
        /\ ItemShown(id) /\ items[id].isEditing
        /\ items[id].editDate # v
        /\ items' = [items EXCEPT ![id].editDate = v]
        /\ lastOp' = [op |-> "changeEditDate", id |-> id]
        /\ UNCHANGED <<phase, storage, tasks, tags, binaryStore, pendingPuts,
                       pendingDeletes, form, view, selectedDate,
                       selectedTagFilter, uuids, loadHist>>
    /\ UNCHANGED hookVars

\* TaskItem.handleSave: onUpdateTask is useTasks.updateTask, called with the
\* edit state as it stands, then the editor closes.
HandleSave ==
    /\ ClockTick
    /\ \E id \in DOMAIN items :
        /\ ItemShown(id) /\ items[id].isEditing
        /\ LET e == items[id]
               updates == [title        |-> e.editTitle,
                           date         |-> e.editDate,
                           time         |-> OrUndefined(e.editTime),
                           tagId        |-> OrUndefined(e.editTagId),
                           imageOffsetY |-> e.editImageOffsetY,
                           imageOpacity |-> e.editImageOpacity]
               newTasks == updateTask(tasks, id, updates)
           IN  /\ storage' = saveTasks(storage, newTasks)
               /\ Render(newTasks, selectedDate, selectedTagFilter, view,
                         [items EXCEPT ![id].isEditing = FALSE])
        /\ lastOp' = [op |-> "updateTask", id |-> id,
                      updates |-> [title        |-> items[id].editTitle,
                                   date         |-> items[id].editDate,
                                   time         |-> OrUndefined(items[id].editTime),
                                   tagId        |-> OrUndefined(items[id].editTagId),
                                   imageOffsetY |-> items[id].editImageOffsetY,
                                   imageOpacity |-> items[id].editImageOpacity]]
        /\ loadHist' = <<>>
        /\ UNCHANGED <<phase, tags, binaryStore, pendingPuts, pendingDeletes,
                       form, uuids>>
    /\ UNCHANGED hookVars

\* TaskItem.handleCancel: the edit state is reset from the task shown
HandleCancel ==
    /\ ClockTick
    /\ \E id \in DOMAIN items :
        /\ ItemShown(id) /\ items[id].isEditing
        /\ items' = [items EXCEPT ![id] =
                        initialItem(CHOOSE t \in Range(tasks) : t.id = id)]
        /\ lastOp' = [op |-> "cancelEdit", id |-> id]
        /\ UNCHANGED <<phase, storage, tasks, tags, binaryStore, pendingPuts,
                       pendingDeletes, form, view, selectedDate,
                       selectedTagFilter, uuids, loadHist>>
    /\ UNCHANGED hookVars

\* ------------------------------------------------------------- user: App
\* When the list view goes away TaskInput unmounts: its state is lost and a
\* saveImageToDB continuation of that instance no longer reaches a form.
unmountForm(puts) == {[p EXCEPT !.live = FALSE] : p \in puts}

\* TagChip onClick -> onSelectTag(tag.id): the chip is drawn for a task whose
\* tag is found in tags, outside the editor
OnSelectTag ==
    /\ ClockTick
    /\ \E id \in DOMAIN items :
        /\ ItemShown(id) /\ ~items[id].isEditing
        /\ LET t  == CHOOSE x \in Range(tasks) : x.id = id
               tf == Get(t, "tagId")
           IN  /\ \E g \in Range(tags) : g.id = tf
               /\ Render(tasks, selectedDate, tf, "list", items)
        /\ lastOp' = [op |-> "selectTag", id |-> id]
        /\ UNCHANGED <<phase, storage, tags, binaryStore, pendingPuts,
                       pendingDeletes, form, uuids, loadHist>>
    /\ UNCHANGED hookVars

\* the button of the filter indicator: drawn when selectedTagFilter && activeTag
ClearTagFilter ==
    /\ ClockTick
    /\ phase = "running" /\ view = "list"
    /\ selectedTagFilter # NoTag
    /\ \E g \in Range(tags) : g.id = selectedTagFilter
    /\ Render(tasks, selectedDate, NoTag, view, items)
    /\ lastOp' = [op |-> "clearTagFilter"]
    /\ UNCHANGED <<phase, storage, tags, binaryStore, pendingPuts,
                   pendingDeletes, form, uuids, loadHist>>
    /\ UNCHANGED hookVars

\* the calendar button of the view switcher
ShowCalendar ==
    /\ ClockTick
    /\ phase = "running" /\ view = "list"
    /\ Render(tasks, selectedDate, selectedTagFilter, "calendar", items)
    /\ form' = initialForm
    /\ pendingPuts' = unmountForm(pendingPuts)
    /\ lastOp' = [op |-> "showCalendar"]
    /\ UNCHANGED <<phase, storage, tags, binaryStore, pendingDeletes,
                   uuids, loadHist>>
    /\ UNCHANGED hookVars

\* the list button of the view switcher: setView('list'); setSelectedDate(null)
ShowList ==
    /\ ClockTick
    /\ phase = "running"
    /\ view = "calendar" \/ selectedDate # NoDate
    /\ Render(tasks, NoDate, selectedTagFilter, "list", items)
    /\ lastOp' = [op |-> "showList"]
    /\ UNCHANGED <<phase, storage, tags, binaryStore, pendingPuts,
                   pendingDeletes, form, uuids, loadHist>>
    /\ UNCHANGED hookVars

nextSelectedDate_always(sd, date) == date

\* selectedDate && isSameDay(selectedDate, date) ? null : date
nextSelectedDate(sd, date) ==
    IF sd # NoDate /\ sd = date THEN NoDate ELSE date

\* App.handleDateSelect, from a day of the CalendarView of the calendar view
handleDateSelect ==
    /\ ClockTick
    /\ phase = "running" /\ view = "calendar"
    /\ \E date \in Days :
          /\ Render(tasks, nextSelectedDate(selectedDate, date),
                    selectedTagFilter, "list", items)
          /\ lastOp' = [op |-> "dateSelect", date |-> date]
    /\ UNCHANGED <<phase, storage, tags, binaryStore, pendingPuts,
                   pendingDeletes, form, uuids, loadHist>>
    /\ UNCHANGED hookVars

\* App.handleReset: the header logo, and the X of the date card
handleReset ==
    /\ ClockTick
    /\ phase = "running"
    /\ view = "calendar" \/ selectedDate # NoDate \/ selectedTagFilter # NoTag
    /\ Render(tasks, NoDate, NoTag, "list", items)
    /\ lastOp' = [op |-> "reset"]
    /\ UNCHANGED <<phase, storage, tags, binaryStore, pendingPuts,
                   pendingDeletes, form, uuids, loadHist>>
    /\ UNCHANGED hookVars

\* ------------------------------------------------------------ binary store
\* The file input / drop / paste handlers of the task image and the file
\* input of the new tag: const id = uuidv4(); await saveImageToDB(id, file)
UploadBegin ==
    /\ ClockTick
    /\ FormShown /\ form.isExpanded
    /\ uuids < MaxUuid
    /\ \E target \in {"task", "tag"} :
          /\ target = "tag" => form.showNewTagInput
          /\ pendingPuts' = pendingPuts \cup
                {[id |-> uuidv4(uuids + 1), target |-> target, live |-> TRUE]}
    /\ uuids' = uuids + 1
    /\ lastOp' = [op |-> "uploadBegin"]
    /\ UNCHANGED <<phase, storage, tasks, tags, binaryStore, pendingDeletes,
                   form, view, selectedDate, selectedTagFilter, items,
                   loadHist>>
    /\ UNCHANGED hookVars

\* saveImageToDB resolves: db.put has stored the entry, and the handler
\* goes on to setLocalTaskImageId(id) / setLocalNewTagImageId(id)
UploadDone ==
    \E p \in pendingPuts :
        /\ binaryStore' = binaryStore \cup {p.id}
        /\ pendingPuts' = pendingPuts \ {p}
        /\ form' = IF ~p.live THEN form
                   ELSE IF p.target = "task"
                   THEN [form EXCEPT !.localTaskImageId = p.id]
                   ELSE [form EXCEPT !.localNewTagImageId = p.id]
        /\ lastOp' = [op |-> "uploadDone", id |-> p.id]
        /\ UNCHANGED <<phase, storage, tasks, tags, pendingDeletes, view,
                       selectedDate, selectedTagFilter, items, now, uuids,
                       loadHist, hook, lastLookup, hero>>

\* the delete button of the task image preview: setLocalTaskImageId(null);
\* the binary store is not touched
RemoveFormImage ==
    /\ ClockTick
    /\ FormShown /\ form.isExpanded
    /\ form.localTaskImageId # NoImage
    /\ form' = [form EXCEPT !.localTaskImageId = NoImage]
    /\ lastOp' = [op |-> "removeFormImage", id |-> form.localTaskImageId]
    /\ UNCHANGED <<phase, storage, tasks, tags, binaryStore, pendingPuts,
                   pendingDeletes, view, selectedDate, selectedTagFilter,
                   items, uuids, loadHist>>
    /\ UNCHANGED hookVars

\* saveImageToDB rejects: nothing is stored and the handler stops
UploadFailed ==
    \E p \in pendingPuts :
        /\ pendingPuts' = pendingPuts \ {p}
        /\ lastOp' = [op |-> "uploadFailed", id |-> p.id]
        /\ UNCHANGED <<phase, storage, tasks, tags, binaryStore,
                       pendingDeletes, form, view, selectedDate,
                       selectedTagFilter, items, now, uuids, loadHist, hook, lastLookup, hero>>

\* deleteImageFromDB(id), reached through import(...).then
deleteImageFromDB ==
    \E id \in pendingDeletes :
        /\ binaryStore' = binaryStore \ {id}
        /\ pendingDeletes' = pendingDeletes \ {id}
        /\ lastOp' = [op |-> "deleteImage", id |-> id]
        /\ UNCHANGED <<phase, storage, tasks, tags, pendingPuts, form, view,
                       selectedDate, selectedTagFilter, items, now, uuids,
                       loadHist, hook, lastLookup, hero>>

\* ---------------------------------------------------------------- useImage
\* The hook is modelled as one instance whose arguments are any local image
\* id and any fallback URL a caller can pass, beside the binary store.
LocalArgs == {Undefined, "", "u1", "u2"}
UrlArgs   == {Undefined, "", "http://r"}

appVars == <<phase, storage, tasks, tags, binaryStore, pendingPuts,
             pendingDeletes, form, view, selectedDate, selectedTagFilter,
             items, now, uuids, lastOp, loadHist>>

\* URL.createObjectURL(item.blob): a non-empty string that names the entry
ObjectURL(id) ==
    [u1 |-> "blob:u1", u2 |-> "blob:u2", u3 |-> "blob:u3", u4 |-> "blob:u4",
     u5 |-> "blob:u5", u6 |-> "blob:u6"][id]

\* !x for a string, undefined or null
Falsy(x) == x \in {Undefined, "", Null}

getImageFromDB_rethrows(store, id, openOk, getOk) ==
    IF ~openOk \/ ~getOk THEN [threw |-> TRUE, url |-> Null]
    ELSE IF id \in store THEN [threw |-> FALSE, url |-> ObjectURL(id)]
    ELSE [threw |-> FALSE, url |-> Null]

\* getImageFromDB: openOk / getOk say whether initDB() and db.get() resolve;
\* a rejection of either is caught and null is returned
getImageFromDB(store, id, openOk, getOk) ==
    IF ~openOk \/ ~getOk THEN [threw |-> FALSE, url |-> Null]
    ELSE IF id \in store THEN [threw |-> FALSE, url |-> ObjectURL(id)]
    ELSE [threw |-> FALSE, url |-> Null]

\* fallbackUrl || null
OrNull(fallbackUrl) == IF Falsy(fallbackUrl) THEN Null ELSE fallbackUrl

resolveImage_ignoresLocal(url, fallbackUrl) == OrNull(fallbackUrl)

\* if (url) setImageUrl(url) else setImageUrl(fallbackUrl || null)
resolveImage(url, fallbackUrl) ==
    IF ~Falsy(url) THEN url ELSE OrNull(fallbackUrl)

cleanup_forgets(lookups) == lookups

\* the cleanup of the effect: isMounted = false in the closure of every
\* fetchImage started so far
cleanup(lookups) == {[lk EXCEPT !.isMounted = FALSE] : lk \in lookups}

\* The component is rendered with arguments that differ from those of the
\* previous render (or is mounted): the previous effect is cleaned up and
\* the effect runs.
HookRender ==
    \E l \in LocalArgs, f \in UrlArgs :
        /\ ~hook.mounted \/ <<l, f>> # <<hook.localImageId, hook.fallbackUrl>>
        /\ IF Falsy(l)
           THEN hook' = [mounted |-> TRUE, localImageId |-> l,
                         fallbackUrl |-> f, imageUrl |-> OrNull(f),
                         outcome |-> "absent",
                         lookups |-> cleanup(hook.lookups)]
           ELSE /\ Cardinality(hook.lookups) < MaxLookups
                /\ hook' = [mounted |-> TRUE, localImageId |-> l,
                            fallbackUrl |-> f,
                            imageUrl |-> IF hook.mounted THEN hook.imageUrl
                                         ELSE Null,
                            outcome |-> "pending",
                            lookups |-> cleanup(hook.lookups) \cup
                                {[id |-> l, fallbackUrl |-> f,
                                  isMounted |-> TRUE]}]
        /\ UNCHANGED <<lastLookup, hero>>
        /\ UNCHANGED appVars

\* await getImageFromDB(localImageId) settles, and fetchImage goes on
LookupSettles ==
    \E lk \in hook.lookups, openOk \in BOOLEAN, getOk \in BOOLEAN :
        LET r     == getImageFromDB(binaryStore, lk.id, openOk, getOk)
            found == openOk /\ getOk /\ lk.id \in binaryStore
        IN
        /\ lastLookup' = [id |-> lk.id, openOk |-> openOk, getOk |-> getOk,
                          stored |-> lk.id \in binaryStore,
                          threw |-> r.threw, url |-> r.url]
        /\ hook' =
              IF ~lk.isMounted
              THEN [hook EXCEPT !.lookups = hook.lookups \ {lk}]
              ELSE [hook EXCEPT
                      !.lookups = hook.lookups \ {lk},
                      !.imageUrl = IF r.threw THEN hook.imageUrl
                                   ELSE resolveImage(r.url, lk.fallbackUrl),
                      !.outcome = IF found THEN "found"
                                  ELSE IF openOk /\ getOk THEN "nothing"
                                  ELSE "failed"]
        /\ UNCHANGED hero
        /\ UNCHANGED appVars

\* The component that calls the hook is unmounted: cleanup, state dropped
HookUnmount ==
    /\ hook.mounted
    /\ hook' = [initialHook EXCEPT !.lookups = cleanup(hook.lookups)]
    /\ UNCHANGED <<lastLookup, hero>>
    /\ UNCHANGED appVars

\* The state of the application when the hook is examined: the only task,
\* created with an uploaded image, has just been deleted, and the deletion
\* of its binary entry is queued.
ImageAppInit ==
    /\ phase = "running"
    /\ storage = [k \in StorageKeys |->
                    IF k = STORAGE_KEY_TAGS THEN JSONstringify(initialTags)
                    ELSE IF k = STORAGE_KEY_TASKS THEN JSONstringify(<<>>)
                    ELSE NoItem]
    /\ tasks = <<>>
    /\ tags = initialTags
    /\ binaryStore = {"u1"}
    /\ pendingPuts = {}
    /\ pendingDeletes = {"u1"}
    /\ form = initialForm
    /\ view = "list"
    /\ selectedDate = NoDate
    /\ selectedTagFilter = NoTag
    /\ items = [id \in {} |-> initialForm]
    /\ now = 7
    /\ uuids = 2
    /\ lastOp = [op |-> "deleteTask", id |-> "u2", confirmed |-> TRUE]
    /\ loadHist = <<>>
    /\ hook = initialHook
    /\ lastLookup = NoLookup

ImageInit == ImageAppInit /\ hero = NotRendered

ImageNext ==
    \/ HookRender \/ LookupSettles \/ HookUnmount \/ deleteImageFromDB

ImageSpec == ImageInit /\ [][ImageNext]_vars

\* ------------------------------------------------- TaskItem: the hero image
\* The stored values a task can carry: absent, or a percentage.
Percent == 0..100
StoredPercent == {UndefinedNum} \cup Percent

\* objectPosition: `center ${task.imageOffsetY ?? 50}%`
heroOffset(task) ==
    IF Get(task, "imageOffsetY") = UndefinedNum THEN 50 ELSE task.imageOffsetY

\* opacity: task.imageOpacity ? task.imageOpacity / 100 : undefined, beside
\* the class !task.imageOpacity && "opacity-20 dark:opacity-10".  The
\* result is the opacity the image is drawn with, in percent.
heroOpacity(task, dark) ==
    IF Get(task, "imageOpacity") \notin {UndefinedNum, 0}
    THEN task.imageOpacity
    ELSE IF dark THEN 10 ELSE 20

\* A TaskItem whose displayImageUrl is set draws the image of the task it
\* was given, in the light or the dark theme.
RenderHeroImage ==
    /\ ~hero.shown
    /\ "task" \in DOMAIN hero
    /\ hero' = [shown |-> TRUE, task |-> hero.task, dark |-> hero.dark,
                offset |-> heroOffset(hero.task),
                opacity |-> heroOpacity(hero.task, hero.dark)]
    /\ UNCHANGED <<hook, lastLookup>>
    /\ UNCHANGED appVars

\* The task is any task as it comes out of storage: each of the two values
\* absent or a percentage.  The rest of the state plays no part.
RenderInit ==
    /\ ImageAppInit
    /\ \E offsetY \in StoredPercent, opacity \in StoredPercent,
          dark \in BOOLEAN :
          hero = [shown |-> FALSE,
                  task |-> StringifyObject([imageOffsetY |-> offsetY,
                                            imageOpacity |-> opacity]),
                  dark |-> dark]

RenderNext == RenderHeroImage

RenderSpec == RenderInit /\ [][RenderNext]_vars

\* --------------------------------------------------------- specification
Next ==
    \/ Load \/ Restart
    \/ HandleSubmit \/ HandleAddTag \/ DeleteTag
    \/ ExpandForm \/ CancelForm \/ SelectFormTag \/ ToggleNewTagInput
    \/ ToggleTask \/ DeleteTask
    \/ StartEdit \/ ChangeEditTag \/ ChangeEditDate \/ HandleSave \/ HandleCancel
    \/ OnSelectTag \/ ClearTagFilter \/ ShowCalendar \/ ShowList
    \/ handleDateSelect \/ handleReset
    \/ UploadBegin \/ UploadDone \/ UploadFailed \/ RemoveFormImage
    \/ deleteImageFromDB

Spec == Init /\ [][Next]_vars

\* A consumer of useTasks that calls two of its task operations in one
\* handler.  Both calls are made on the functions of one render, whose
\* closures hold the same tasks array; the render follows the handler.  The
\* components of the application itself issue one operation per event.
TaskCalls(ts) ==
    {[op |-> "addTask", date |-> d] : d \in Days}
        \cup {[op |-> "toggleTask", id |-> t.id] : t \in Range(ts)}

\* the collection a call passes to saveTasks, computed from the array ts its
\* closure holds; n is the number of uuidv4() results handed out before it
callTask(ts, c, n, at) ==
    IF c.op = "addTask"
    THEN addTask(ts, uuidv4(n + 1), at, "X", c.date, "deadline", Undefined,
                 Undefined, Undefined, UndefinedNum, Undefined, UndefinedNum)
    ELSE toggleTask(ts, c.id)

Adds(c) == IF c.op = "addTask" THEN 1 ELSE 0

CallTwice ==
    /\ ClockTick
    /\ phase = "running"
    /\ \E first \in TaskCalls(tasks), second \in TaskCalls(tasks) :
          LET firstTasks  == callTask(tasks, first, uuids, now)
              secondTasks == callTask(tasks, second, uuids + Adds(first), now)
          IN  /\ Len(tasks) + Adds(first) + Adds(second) <= MaxTasks
              /\ uuids + Adds(first) + Adds(second) <= MaxUuid
              /\ storage' = saveTasks(saveTasks(storage, firstTasks),
                                      secondTasks)
              /\ Render(secondTasks, selectedDate, selectedTagFilter, view,
                        items)
              /\ uuids' = uuids + Adds(first) + Adds(second)
              /\ lastOp' = [op |-> "callTwice", first |-> first,
                            second |-> second, n |-> uuids]
    /\ loadHist' = <<>>
    /\ UNCHANGED <<phase, tags, binaryStore, pendingPuts, pendingDeletes,
                   form>>
    /\ UNCHANGED hookVars

SnapshotNext == Load \/ Restart \/ ToggleTask \/ CallTwice

SnapshotSpec == Init /\ [][SnapshotNext]_vars

\* Startup over any contents of localStorage: each of the four keys is
\* absent, holds a collection, holds text that JSON.parse rejects, or holds
\* JSON that is not an array.  The page is started, closed and started again.
KeyContents(k) ==
    {NoItem} \cup Malformed \cup
    {IF k = STORAGE_KEY_TAGS THEN JSONstringify(initialTags)
     ELSE IF k = STORAGE_KEY_TASKS THEN JSONstringify(<<>>)
     ELSE IF k = LEGACY_STORAGE_KEY_GAMES THEN JsonText(JsonArray(legacyGames))
     ELSE JsonText(JsonArray(legacyTaskList))}

StartupInit ==
    /\ phase = "boot"
    /\ storage \in [StorageKeys -> UNION {KeyContents(k) : k \in StorageKeys}]
    /\ \A k \in StorageKeys : storage[k] \in KeyContents(k)
    /\ tasks = <<>>
    /\ tags = <<>>
    /\ binaryStore = {}
    /\ pendingPuts = {}
    /\ pendingDeletes = {}
    /\ form = initialForm
    /\ view = "list"
    /\ selectedDate = NoDate
    /\ selectedTagFilter = NoTag
    /\ items = [id \in {} |-> initialForm]
    /\ now = 2
    /\ uuids = 0
    /\ lastOp = NoOp
    /\ loadHist = <<>>
    /\ hook = initialHook
    /\ lastLookup = NoLookup
    /\ hero = NotRendered

StartupNext == Load \/ Restart

StartupSpec == StartupInit /\ [][StartupNext]_vars

\* The continuation of import(...).then is a queued job of the page: while
\* the page stays open it is run.
\* It is checked from the first start of a browser that never ran the
\* previous application: what the legacy keys hold plays no part in it.
FreshInit ==
    /\ Init
    /\ storage[LEGACY_STORAGE_KEY_GAMES] = NoItem
    /\ storage[LEGACY_STORAGE_KEY_TASKS] = NoItem

FairSpec == FreshInit /\ [][Next]_vars /\ WF_vars(deleteImageFromDB)

\* ================================================================ claims
\* the stored collection under a current key; an absent key holds none
Persisted(k) ==
    IF storage[k] = NoItem THEN JSONstringify(<<>>) ELSE storage[k]

Occurrences(s, x) == Cardinality({i \in 1..Len(s) : s[i] = x})

\* the same elements, whatever their order
SameElements(a, b) ==
    /\ Len(a) = Len(b)
    /\ \A x \in Range(a) \cup Range(b) : Occurrences(a, x) = Occurrences(b, x)

StoredItems(st, k) == st[k].val.items

HasList(item) == item # NoItem /\ item.json /\ item.val.array

RecordOps == {"addTask", "toggleTask", "updateTask", "deleteTask",
              "addTag", "deleteTag"}

LoadStep == lastOp'.op = "load" /\ ~lastOp'.threw

\* C1: after each addTask, toggleTask, updateTask, deleteTask, addTag or
\* deleteTag (and the re-evaluation of the list filter that follows it) the
\* tasks in memory are, element for element and in the same order, the
\* collection stored under the current task key, and likewise the tags.
C1_MemoryEqualsPersisted ==
    lastOp.op \in RecordOps =>
        /\ JSONstringify(tasks) = Persisted(STORAGE_KEY_TASKS)
        /\ JSONstringify(tags) = Persisted(STORAGE_KEY_TAGS)

\* C2: once loaded, every task whose tag reference is present names a tag
\* of the tag collection.
C2_NoDanglingTagReference ==
    phase = "running" =>
        \A t \in Range(tasks) :
            Get(t, "tagId") # Undefined =>
                \E g \in Range(tags) : g.id = t.tagId

\* C3: a confirmed deleteTag(id) leaves no tag with that id, leaves every
\* task in the collection, leaves every task that referenced the tag with
\* an absent tag reference, and has both collections stored.
C3_DeleteTagClearsReferences ==
    [][(lastOp'.op = "deleteTag" /\ lastOp'.confirmed) =>
        LET id == lastOp'.id IN
        /\ \A g \in Range(tags') : g.id # id
        /\ {t.id : t \in Range(tasks')} = {t.id : t \in Range(tasks)}
        /\ Len(tasks') = Len(tasks)
        /\ \A t \in Range(tasks) : \A u \in Range(tasks') :
              (Get(t, "tagId") = id /\ u.id = t.id) =>
                  Get(u, "tagId") = Undefined
        /\ storage'[STORAGE_KEY_TAGS] = JSONstringify(tags')
        /\ HasList(storage'[STORAGE_KEY_TASKS])
        /\ SameElements(StoredItems(storage', STORAGE_KEY_TASKS),
                        MapSeq(tasks', StringifyObject))
        /\ \A u \in Range(StoredItems(storage', STORAGE_KEY_TASKS)) :
              "tagId" \in DOMAIN u => u.tagId # id
    ]_vars

C3_Witness ==
    /\ lastOp.op = "deleteTag"
    /\ lastOp.confirmed
    /\ lastOp.n >= 2

\* C4: when a collection has nothing under its current key and its legacy
\* key holds text that is not JSON, or JSON that is not a list, the load
\* does not throw, that collection is empty in memory, and the other
\* collection is loaded from its own keys.
C4_MigrationFailureIsNotFatal ==
    [][lastOp'.op = "load" =>
        /\ (storage[STORAGE_KEY_TAGS] = NoItem
            /\ storage[LEGACY_STORAGE_KEY_GAMES] \in Malformed) =>
              /\ ~lastOp'.threw /\ phase' = "running"
              /\ tags' = <<>>
              /\ HasList(storage[STORAGE_KEY_TASKS]) =>
                    SameElements(tasks',
                                 StoredItems(storage, STORAGE_KEY_TASKS))
              /\ (storage[STORAGE_KEY_TASKS] = NoItem
                  /\ HasList(storage[LEGACY_STORAGE_KEY_TASKS])) =>
                    {t.id : t \in Range(tasks')} =
                    {t.id : t \in Range(StoredItems(storage,
                                            LEGACY_STORAGE_KEY_TASKS))}
        /\ (storage[STORAGE_KEY_TASKS] = NoItem
            /\ storage[LEGACY_STORAGE_KEY_TASKS] \in Malformed) =>
              /\ ~lastOp'.threw /\ phase' = "running"
              /\ tasks' = <<>>
              /\ HasList(storage[STORAGE_KEY_TAGS]) =>
                    tags' = StoredItems(storage, STORAGE_KEY_TAGS)
              /\ (storage[STORAGE_KEY_TAGS] = NoItem
                  /\ HasList(storage[LEGACY_STORAGE_KEY_GAMES])) =>
                    {g.id : g \in Range(tags')} =
                    {g.id : g \in Range(StoredItems(storage,
                                            LEGACY_STORAGE_KEY_GAMES))}
    ]_vars

C4_Witness ==
    /\ lastOp.op = "load"
    /\ lastOp.tagsBranch = "failed"
    /\ storage[LEGACY_STORAGE_KEY_GAMES] = Garbage
    /\ phase = "running"
    /\ Len(tasks) = 2

\* C5: a load that follows a completed load, with no mutation in between,
\* writes nothing to storage and leaves the same tags and tasks in memory,
\* in the same order (a property that holds undefined and a property that
\* is missing read the same).
C5_ReloadIsNoOp ==
    Len(loadHist) = 2 =>
        /\ loadHist[2].writes = {}
        /\ MapSeq(loadHist[2].tags, StringifyObject) =
              MapSeq(loadHist[1].tags, StringifyObject)
        /\ MapSeq(loadHist[2].tasks, StringifyObject) =
              MapSeq(loadHist[1].tasks, StringifyObject)

C5_Witness ==
    /\ Len(loadHist) = 2
    /\ loadHist[1].writes = {STORAGE_KEY_TAGS, STORAGE_KEY_TASKS}
    /\ loadHist[2].at > loadHist[1].at
    /\ lastOp.op = "load"

\* C6: a load that finds no tags under the current key and a list under the
\* legacy key turns every legacy entry {id, title, themeColor}, in order,
\* into the tag {id, name: title, themeColor}, stores the result under the
\* current tag key and leaves the legacy key as it was.
C6_TagMigration ==
    [][(LoadStep /\ storage[STORAGE_KEY_TAGS] = NoItem
                 /\ HasList(storage[LEGACY_STORAGE_KEY_GAMES])) =>
        LET games == StoredItems(storage, LEGACY_STORAGE_KEY_GAMES) IN
        /\ Len(tags') = Len(games)
        /\ \A i \in 1..Len(games) :
              /\ DOMAIN tags'[i] = {"id", "name", "themeColor"}
              /\ tags'[i].id = games[i].id
              /\ tags'[i].name = games[i].title
              /\ tags'[i].themeColor = games[i].themeColor
        /\ storage'[STORAGE_KEY_TAGS] = JsonText(JsonArray(tags'))
        /\ storage'[LEGACY_STORAGE_KEY_GAMES] =
              storage[LEGACY_STORAGE_KEY_GAMES]
    ]_vars

C6_Witness ==
    /\ lastOp.op = "load"
    /\ lastOp.tagsBranch = "migrated"
    /\ Len(tags) = 2
    /\ tags[1].name = "Work"

\* C7: a load that finds no tasks under the current key and a list under
\* the legacy key stores, for every legacy task and in order, a task whose
\* tagId is the legacy gameId, that has no gameId, whose createdAt is the
\* legacy one if there was one and the time of the load otherwise, and
\* whose other fields are those of the legacy task; the tasks in memory are
\* the stored ones.
C7_TaskMigration ==
    [][(LoadStep /\ storage[STORAGE_KEY_TASKS] = NoItem
                 /\ HasList(storage[LEGACY_STORAGE_KEY_TASKS])) =>
        LET old == StoredItems(storage, LEGACY_STORAGE_KEY_TASKS) IN
        /\ HasList(storage'[STORAGE_KEY_TASKS])
        /\ LET new == StoredItems(storage', STORAGE_KEY_TASKS) IN
           /\ Len(new) = Len(old)
           /\ \A i \in 1..Len(old) :
                 /\ "gameId" \notin DOMAIN new[i]
                 /\ Get(new[i], "tagId") = Get(old[i], "gameId")
                 /\ new[i].createdAt =
                       IF "createdAt" \in DOMAIN old[i]
                       THEN old[i].createdAt ELSE now
                 /\ \A f \in DOMAIN old[i] \ {"gameId", "tagId", "createdAt"} :
                       f \in DOMAIN new[i] /\ new[i][f] = old[i][f]
                 /\ DOMAIN new[i] \subseteq
                       (DOMAIN old[i] \cup {"tagId", "createdAt"})
           /\ SameElements(MapSeq(tasks', StringifyObject), new)
    ]_vars

C7_Witness ==
    /\ lastOp.op = "load"
    /\ lastOp.tasksBranch = "migrated"
    /\ \E t \in Range(tasks) : t.id = "t1" /\ t.tagId = "g1" /\ t.createdAt = 2
    /\ \E t \in Range(tasks) : t.id = "t2" /\ t.createdAt = 1

\* C8: at a load, the tags come from the current tag key when it holds a
\* collection, else are the transformed legacy games, which are written,
\* when the legacy key holds a collection, else are the three built-in tags,
\* which are written; the tasks come from the current task key when it holds
\* a collection, else are the transformed legacy tasks, which are written,
\* when the legacy key holds a collection, else are none, with nothing
\* written.  Each side is decided by its own two keys.
C8_TagBranch ==
    LET cur == storage[STORAGE_KEY_TAGS]
        old == storage[LEGACY_STORAGE_KEY_GAMES]
    IN  IF HasList(cur)
        THEN /\ tags' = cur.val.items
             /\ storage'[STORAGE_KEY_TAGS] = cur
        ELSE IF HasList(old)
        THEN /\ [i \in 1..Len(tags') |-> tags'[i].id] =
                   [i \in 1..Len(old.val.items) |-> old.val.items[i].id]
             /\ storage'[STORAGE_KEY_TAGS] = JSONstringify(tags')
        ELSE (cur = NoItem /\ old = NoItem) =>
             /\ [i \in 1..Len(tags') |-> tags'[i].id] =
                   <<"tag-1", "tag-2", "tag-3">>
             /\ storage'[STORAGE_KEY_TAGS] = JSONstringify(tags')

C8_TaskBranch ==
    LET cur == storage[STORAGE_KEY_TASKS]
        old == storage[LEGACY_STORAGE_KEY_TASKS]
    IN  IF HasList(cur)
        THEN /\ SameElements(tasks', cur.val.items)
             /\ storage'[STORAGE_KEY_TASKS] = cur
        ELSE IF HasList(old)
        THEN /\ {t.id : t \in Range(tasks')} =
                   {t.id : t \in Range(old.val.items)}
             /\ Len(tasks') = Len(old.val.items)
             /\ HasList(storage'[STORAGE_KEY_TASKS])
             /\ SameElements(StoredItems(storage', STORAGE_KEY_TASKS),
                             MapSeq(tasks', StringifyObject))
        ELSE (cur = NoItem /\ old = NoItem) =>
             /\ tasks' = <<>>
             /\ storage'[STORAGE_KEY_TASKS] = NoItem

C8_StartupBranches ==
    [][LoadStep =>
        /\ C8_TagBranch
        /\ C8_TaskBranch
        /\ storage'[LEGACY_STORAGE_KEY_GAMES] = storage[LEGACY_STORAGE_KEY_GAMES]
        /\ storage'[LEGACY_STORAGE_KEY_TASKS] = storage[LEGACY_STORAGE_KEY_TASKS]
    ]_vars

C8_Witness ==
    /\ lastOp.op = "load"
    /\ lastOp.tagsBranch = "current"
    /\ lastOp.tasksBranch = "empty"
    /\ Len(tags) = 3
    /\ storage[STORAGE_KEY_TASKS] = NoItem

\* C9: a deleteTask or deleteTag whose confirmation is declined, at the
\* first or at the second question, changes neither the tasks, the tags,
\* the storage, the binary store and its pending deletions, nor the tag
\* selected in the input form.
C9_DeclinedDeleteIsNoOp ==
    [][(lastOp'.op \in {"deleteTask", "deleteTag"} /\ ~lastOp'.confirmed) =>
        /\ tasks' = tasks
        /\ tags' = tags
        /\ storage' = storage
        /\ binaryStore' = binaryStore
        /\ pendingDeletes' = pendingDeletes
        /\ form'.selectedTagId = form.selectedTagId
    ]_vars

\* C10: every local image reference of a task or tag, in memory or in the
\* stored collections, is the key of an entry of the binary store.
LocalImageRefs(s) ==
    {Get(r, "localImageId") : r \in Range(s)} \ {Undefined}

C10_LocalImageRefsResolve ==
    /\ LocalImageRefs(tasks) \subseteq binaryStore
    /\ LocalImageRefs(tags) \subseteq binaryStore
    /\ \A k \in {STORAGE_KEY_TASKS, STORAGE_KEY_TAGS} :
          HasList(storage[k]) =>
              LocalImageRefs(StoredItems(storage, k)) \subseteq binaryStore

C10_Witness ==
    /\ LocalImageRefs(tasks) # {}
    /\ lastOp.op = "addTask"

\* C11: a confirmed deleteTask or deleteTag removes the record from its
\* collection; when the record has a local image reference the deletion of
\* the binary-store entry under it is issued in the same step, and the
\* entry is eventually gone unless the page is closed before the queued
\* deletion has run; when the record has none, no deletion is issued.
ImageIds == {uuidv4(n) : n \in 1..6}

LocalRefOf(s, id) ==
    {Get(r, "localImageId") : r \in {x \in Range(s) : x.id = id}}
        \ {Undefined}

C11_DeleteStep ==
    (lastOp'.op \in {"deleteTask", "deleteTag"} /\ lastOp'.confirmed) =>
        LET id   == lastOp'.id
            coll == IF lastOp'.op = "deleteTask" THEN tasks ELSE tags
            left == IF lastOp'.op = "deleteTask" THEN tasks' ELSE tags'
        IN  /\ \A r \in Range(left) : r.id # id
            /\ pendingDeletes' = pendingDeletes \cup LocalRefOf(coll, id)

IdsOf(s) == {r.id : r \in Range(s)}

UniqueIds(s) == \A i, j \in 1..Len(s) : s[i].id = s[j].id => i = j

C12_Unique ==
    /\ UniqueIds(tasks)
    /\ UniqueIds(tags)
    /\ \A k \in {STORAGE_KEY_TASKS, STORAGE_KEY_TAGS} :
          HasList(storage[k]) => UniqueIds(StoredItems(storage, k))

C12_IdStep ==
    lastOp'.op \notin {"load", "restart"} =>
        LET fresh == IF uuids' = uuids + 1 THEN {uuidv4(uuids')} ELSE {} IN
        /\ IdsOf(tasks') \ IdsOf(tasks) \subseteq
              (IF lastOp'.op = "addTask" THEN fresh ELSE {})
        /\ IdsOf(tags') \ IdsOf(tags) \subseteq
              (IF lastOp'.op = "addTag" THEN fresh ELSE {})
        /\ fresh \cap (IdsOf(tasks) \cup IdsOf(tags)) = {}
        /\ lastOp'.op \in {"toggleTask", "updateTask"} =>
              /\ IdsOf(tasks') = IdsOf(tasks)
              /\ Len(tasks') = Len(tasks)

C12_IdentifiersUnique == []C12_Unique /\ [][C12_IdStep]_vars

C12_Witness ==
    /\ lastOp.op = "addTask"
    /\ Len(tasks) = 2
    /\ uuids >= 2
    /\ Len(tags) >= 3

\* C13: when the hook is mounted and the lookup for its present arguments
\* has settled, the image it returns is the object URL of the binary entry
\* if a local image id was given and the lookup found the entry; otherwise
\* (no local id, or the lookup found nothing or failed) it is the fallback
\* URL if one was given, and null if none was.
C13_ImageResolution ==
    (hook.mounted /\ hook.outcome # "pending") =>
        LET l == hook.localImageId
            f == hook.fallbackUrl
        IN  /\ (hook.outcome = "absent") <=> (l \in {Undefined, ""})
            /\ hook.imageUrl =
                  IF hook.outcome = "found" THEN ObjectURL(l)
                  ELSE IF f \in {Undefined, ""} THEN Null ELSE f

C13_Witness ==
    /\ hook.mounted
    /\ hook.localImageId = "u1"
    /\ hook.fallbackUrl = "http://r"
    /\ hook.outcome = "failed"
    /\ "u1" \in binaryStore
    /\ hook.imageUrl = "http://r"

\* C14: a getImageFromDB call never throws; it returns the object URL of
\* the entry when the store opens, the read succeeds and the entry exists,
\* and null when the entry is absent or when opening or reading fails.
C14_GetNeverThrows ==
    lastLookup # NoLookup =>
        /\ ~lastLookup.threw
        /\ lastLookup.url =
              IF lastLookup.openOk /\ lastLookup.getOk /\ lastLookup.stored
              THEN ObjectURL(lastLookup.id) ELSE Null

C14_Witness ==
    /\ lastLookup # NoLookup
    /\ lastLookup.stored
    /\ ~lastLookup.openOk
    /\ lastLookup.url = Null

\* C15: with no date filter and no tag filter the displayed list holds every
\* task of the collection, once each; no completed task stands before an
\* incomplete one, and of two tasks with the same completion flag the one
\* with the earlier date stands first, whatever the order they were added or
\* stored in.
Shown == filteredTasks(tasks, selectedDate, selectedTagFilter)

NotAfter(d, e) == d = e \/ d = "2024-01-01" \/ e = "2024-01-03"

C15_DefaultOrdering ==
    (phase = "running" /\ selectedDate = NoDate /\ selectedTagFilter = NoTag) =>
        /\ SameElements(Shown, tasks)
        /\ \A i, j \in 1..Len(Shown) :
              i < j =>
                /\ Shown[i].completed => Shown[j].completed
                /\ Shown[i].completed = Shown[j].completed =>
                      NotAfter(Shown[i].date, Shown[j].date)

C15_Witness ==
    /\ phase = "running" /\ selectedDate = NoDate /\ selectedTagFilter = NoTag
    /\ Len(Shown) = 2
    /\ ~Shown[1].completed /\ Shown[1].date = "2024-01-02"
    /\ Shown[2].completed /\ Shown[2].date = "2024-01-01"
    /\ StoredItems(storage, STORAGE_KEY_TASKS)[1].id = Shown[2].id

\* C16: while a date filter is active the displayed list is exactly the
\* tasks of the stored collection whose date is the selected day and, if a
\* tag filter is active too, whose tag is the selected tag, in the order
\* the stored collection has them.
StoredTasks ==
    IF HasList(storage[STORAGE_KEY_TASKS])
    THEN StoredItems(storage, STORAGE_KEY_TASKS) ELSE <<>>

Matches(t, sd, tf) ==
    /\ t.date = sd
    /\ tf # NoTag => ("tagId" \in DOMAIN t /\ t.tagId = tf)

C16_DateFilterStoredOrder ==
    (phase = "running" /\ selectedDate # NoDate) =>
        MapSeq(Shown, StringifyObject) =
            FilterSeq(StoredTasks,
                      {t \in Range(StoredTasks) :
                          Matches(t, selectedDate, selectedTagFilter)})

\* C17: a step that only changes the view, the date filter or the tag
\* filter, and so only recomputes the displayed list, leaves the tasks in
\* memory, elements and order, and the storage as they were.
FilterOps == {"selectTag", "clearTagFilter", "showCalendar", "showList",
              "dateSelect", "reset"}

C17_FilteringIsPure ==
    [][lastOp'.op \in FilterOps =>
        /\ tasks' = tasks
        /\ tags' = tags
        /\ storage' = storage
    ]_vars

\* C18: the hero image of a task is drawn at offset 50 when the task stores
\* no offset and at opacity 30 when it stores no opacity, and at the stored
\* value, whatever it is in 0..100, when the task stores one.
C18_RenderDefaults ==
    hero.shown =>
        /\ hero.offset = IF "imageOffsetY" \in DOMAIN hero.task
                         THEN hero.task.imageOffsetY ELSE 50
        /\ hero.opacity = IF "imageOpacity" \in DOMAIN hero.task
                          THEN hero.task.imageOpacity ELSE 30

\* C19: no step, whether a load (migrating, failing or neither), a start
\* of the page or an add, toggle, update or delete, changes what either
\* legacy key holds.
LegacyKeys == {LEGACY_STORAGE_KEY_GAMES, LEGACY_STORAGE_KEY_TASKS}

C19_LegacyKeysReadOnly ==
    [][/\ DOMAIN storage' = DOMAIN storage
       /\ \A k \in LegacyKeys : storage'[k] = storage[k]
    ]_vars

C19_Witness ==
    /\ lastOp.op = "deleteTask" /\ lastOp.confirmed
    /\ HasList(storage[LEGACY_STORAGE_KEY_TASKS])
    /\ storage[LEGACY_STORAGE_KEY_GAMES] \in Malformed
    /\ HasList(storage[STORAGE_KEY_TASKS])
    /\ Len(StoredItems(storage, STORAGE_KEY_TASKS)) <
          Len(StoredItems(storage, LEGACY_STORAGE_KEY_TASKS))

\* C20: after addTask the collection in memory is the collection as it was,
\* in the same order, followed by one new task; the new task has an id that
\* no task had, is not completed, carries the title, date, type, tag, time
\* and image it was given and the time of the call as createdAt; and the
\* collection stored under the current task key is the one in memory.
GivenOrAbsent(t, f, v) ==
    IF v \in {"", NoImage} THEN Get(t, f) = Undefined ELSE Get(t, f) = v

C20_AddTaskAppends ==
    [][lastOp'.op = "addTask" =>
        /\ Len(tasks') = Len(tasks) + 1
        /\ SubSeq(tasks', 1, Len(tasks)) = tasks
        /\ LET new == tasks'[Len(tasks')]
               args == lastOp'.args
           IN  /\ new.id = lastOp'.id
               /\ new.id \notin IdsOf(tasks)
               /\ new.completed = FALSE
               /\ new.createdAt = now
               /\ new.title = args.title
               /\ new.date = args.date
               /\ new.type = args.type
               /\ \A f \in {"tagId", "time", "imageUrl", "localImageId"} :
                     GivenOrAbsent(new, f, args[f])
        /\ storage'[STORAGE_KEY_TASKS] = JSONstringify(tasks')
    ]_vars

\* C21: toggleTask(id) flips the completed flag of the task with that id and
\* nothing else: that task's other fields, the other tasks, the order of the
\* collection and the tags are as before; an id no task has leaves the
\* collection as it is; and a second toggleTask(id) gives back the
\* collection the first one started from.
C21_ToggleFlipsOnly ==
    [][lastOp'.op = "toggleTask" =>
        LET id == lastOp'.id IN
        /\ Len(tasks') = Len(tasks)
        /\ \A i \in 1..Len(tasks) :
              IF tasks[i].id = id
              THEN /\ tasks'[i].completed = ~tasks[i].completed
                   /\ Rest(tasks'[i], "completed") = Rest(tasks[i], "completed")
              ELSE tasks'[i] = tasks[i]
        /\ tags' = tags
        /\ toggleTask(tasks, "no-such-id") = tasks
        /\ tasksAfterFilter(toggleTask(tasks', id), selectedDate',
                            selectedTagFilter') = tasks
    ]_vars

\* C22: updateTask(id, updates) leaves, in the task with that id, each given
\* field with the given value and each other field with its previous value,
\* leaves every other task and the order of the collection as they were,
\* and has the collection stored under the current task key.
C22_UpdateMerges ==
    [][lastOp'.op = "updateTask" =>
        LET id == lastOp'.id
            updates == lastOp'.updates
        IN
        /\ Len(tasks') = Len(tasks)
        /\ \A i \in 1..Len(tasks) :
              IF tasks[i].id = id
              THEN /\ DOMAIN tasks'[i] = DOMAIN tasks[i] \cup DOMAIN updates
                   /\ \A f \in DOMAIN updates : tasks'[i][f] = updates[f]
                   /\ \A f \in DOMAIN tasks[i] \ DOMAIN updates :
                         tasks'[i][f] = tasks[i][f]
              ELSE tasks'[i] = tasks[i]
        /\ storage'[STORAGE_KEY_TASKS] = JSONstringify(tasks')
    ]_vars

\* C23: a confirmed deleteTask or deleteTag removes the record from memory
\* and stores the reduced collection in the step that queues the deletion
\* of its local image, while the binary store is still untouched; and an
\* entry leaves the binary store only after its deletion was queued, when
\* no stored task or tag references it any more.
StoredRefs(st) ==
    UNION {IF HasList(st[k]) THEN LocalImageRefs(StoredItems(st, k)) ELSE {} :
             k \in {STORAGE_KEY_TASKS, STORAGE_KEY_TAGS}}

C23_DeleteOrdering ==
    [][/\ (lastOp'.op \in {"deleteTask", "deleteTag"} /\ lastOp'.confirmed) =>
            LET id   == lastOp'.id
                key  == IF lastOp'.op = "deleteTask"
                        THEN STORAGE_KEY_TASKS ELSE STORAGE_KEY_TAGS
                coll == IF lastOp'.op = "deleteTask" THEN tasks ELSE tags
                left == IF lastOp'.op = "deleteTask" THEN tasks' ELSE tags'
            IN  /\ \A r \in Range(left) : r.id # id
                /\ HasList(storage'[key])
                /\ \A r \in Range(StoredItems(storage', key)) : r.id # id
                /\ LocalRefOf(coll, id) \subseteq pendingDeletes'
                /\ LocalRefOf(coll, id) \cap StoredRefs(storage') = {}
                /\ binaryStore' = binaryStore
       /\ \A img \in binaryStore \ binaryStore' :
             /\ img \in pendingDeletes
             /\ img \notin StoredRefs(storage)
             /\ img \notin StoredRefs(storage')
    ]_vars

C23_Witness ==
    /\ lastOp.op = "deleteImage"
    /\ phase = "running"
    /\ HasList(storage[STORAGE_KEY_TASKS])
    /\ StoredItems(storage, STORAGE_KEY_TASKS) = <<>>
    /\ lastOp.id \notin binaryStore
    /\ pendingPuts = {}

\* C24: whatever the four storage keys hold, startup does not throw: the
\* load completes and tasks and tags are collections; in particular when
\* the current tag key or the current task key holds a value that is not a
\* collection.
C24_StartupNeverThrows ==
    /\ phase # "crashed"
    /\ lastOp.op = "load" => (~lastOp.threw /\ phase = "running")

\* C25: while the list view is shown with a tag filter selected, the
\* selected tag id is the id of a tag of the tag collection; in particular
\* after the deletion of the tag that is filtered on.
C25_TagFilterNamesTag ==
    (phase = "running" /\ view = "list" /\ selectedTagFilter # NoTag) =>
        \E g \in Range(tags) : g.id = selectedTagFilter

\* C26: no mutation is lost: after two task operations issued from the same
\* render the collection, in memory and in storage, holds what applying the
\* second to the result of the first gives; after addTask and addTask both
\* new tasks are present.
C26_NoLostMutation ==
    [][lastOp'.op = "callTwice" =>
        LET first  == lastOp'.first
            second == lastOp'.second
            n      == lastOp'.n
            both   == callTask(callTask(tasks, first, n, now), second,
                               n + Adds(first), now)
        IN  /\ SameElements(tasks', both)
            /\ SameElements(StoredItems(storage', STORAGE_KEY_TASKS),
                            MapSeq(both, StringifyObject))
    ]_vars

\* C27: a lookup that was superseded (the arguments of the hook changed, or
\* its component was unmounted, while it was in flight) changes nothing when
\* it settles; and when no lookup is in flight the image of a mounted hook
\* is one its present arguments give: the fallback URL or null without a
\* local image id, else the object URL of that id or the fallback URL or
\* null.
C27_StaleSettle ==
    \A lk \in hook.lookups :
        (~lk.isMounted /\ hook'.lookups = hook.lookups \ {lk}) =>
            /\ hook'.imageUrl = hook.imageUrl
            /\ hook'.outcome = hook.outcome
            /\ hook'.localImageId = hook.localImageId
            /\ hook'.fallbackUrl = hook.fallbackUrl

C27_Settled ==
    (hook.mounted /\ hook.lookups = {}) =>
        IF Falsy(hook.localImageId)
        THEN hook.imageUrl = OrNull(hook.fallbackUrl)
        ELSE hook.imageUrl \in {ObjectURL(hook.localImageId),
                                OrNull(hook.fallbackUrl)}

C27_NoStaleImage == [][C27_StaleSettle]_vars /\ []C27_Settled

C27_Witness ==
    /\ hook.mounted
    /\ hook.lookups = {}
    /\ hook.localImageId = "u2"
    /\ hook.imageUrl = "http://r"
    /\ lastLookup # NoLookup
    /\ lastLookup.id = "u1"
    /\ lastLookup.url = ObjectURL("u1")

\* C28: a startup that finds a collection under the current tag key, such
\* as the one left after the user deleted tags (even all of them), loads
\* exactly that collection: it neither seeds the default tags nor migrates
\* the legacy games, and writes nothing under the tag key.
C28_SeededAtMostOnce ==
    [][(LoadStep /\ HasList(storage[STORAGE_KEY_TAGS])) =>
        /\ lastOp'.tagsBranch = "current"
        /\ tags' = StoredItems(storage, STORAGE_KEY_TAGS)
        /\ storage'[STORAGE_KEY_TAGS] = storage[STORAGE_KEY_TAGS]
        /\ STORAGE_KEY_TAGS \notin loadHist'[Len(loadHist')].writes
    ]_vars

C28_Witness ==
    /\ lastOp.op = "load"
    /\ ~lastOp.threw
    /\ lastOp.tagsBranch = "current"
    /\ Len(tags) = 2
    /\ Range(tags) \subseteq Range(initialTags)
    /\ storage[LEGACY_STORAGE_KEY_GAMES] = NoItem

\* C29: when no deletion is queued, every entry of the binary store is
\* the local image of a task or of a tag of the collections, or the image
\* held by the input form.
FormImages ==
    {form.localTaskImageId, form.localNewTagImageId} \ {NoImage}

C29_NoOrphans ==
    (phase = "running" /\ pendingDeletes = {}) =>
        binaryStore \subseteq
            LocalImageRefs(tasks) \cup LocalImageRefs(tags) \cup FormImages

\* C30: selecting a day in the calendar shows the list view; the date
\* filter is cleared when the day is the selected day and becomes the day
\* otherwise; the tag filter stays as it was.
C30_DateSelect ==
    [][lastOp'.op = "dateSelect" =>
        /\ view' = "list"
        /\ selectedDate = lastOp'.date => selectedDate' = NoDate
        /\ selectedDate # lastOp'.date => selectedDate' = lastOp'.date
        /\ selectedTagFilter' = selectedTagFilter
    ]_vars

C30_Witness ==
    /\ lastOp.op = "dateSelect"
    /\ view = "list"
    /\ selectedDate = NoDate
    /\ selectedTagFilter # NoTag

====
